---- MODULE Spec2Model ----
(***************************************************************************)
(* A model of the framed file transfer: the length-prefixed frame protocol *)
(* (encapFramedSock.py), the archive codec (archiver.py), the receiver     *)
(* session (framedThreadServer.py) and the sender (framedThreadClient.py). *)
(* A byte is a one-character string, a byte string a sequence of them.     *)
(***************************************************************************)
EXTENDS Integers, Sequences, FiniteSets, TLC

VARIABLES fr, ar, sv, net, disk, cl

vars == <<fr, ar, sv, net, disk, cl>>

(***************************************************************************)
(* Bytes and the Python built-ins the code relies on                       *)
(***************************************************************************)
NL == "\n"

COLON == ":"

DigitSeq == <<"0", "1", "2", "3", "4", "5", "6", "7", "8", "9">>

IsDigit(c) == \E i \in 1..10 : DigitSeq[i] = c

DigitVal(c) == (CHOOSE i \in 1..10 : DigitSeq[i] = c) - 1

\* The bytes Python's strip() and int() treat as white space.
IsSpace(c) == c \in {" ", NL, "\t", "\r"}

Min(a, b) == IF a <= b THEN a ELSE b

Max(a, b) == IF a >= b THEN a ELSE b

\* bs[i:j] for 0 <= i <= j.
Slice(bs, i, j) == SubSeq(bs, i + 1, Min(j, Len(bs)))

\* bs[:m] of Python, m of either sign.
PyHead(bs, m) == IF m >= 0 THEN Slice(bs, 0, m) ELSE Slice(bs, 0, Max(Len(bs) + m, 0))

\* bs[m:] of Python, m of either sign.
PyTail(bs, m) ==
    IF m >= 0 THEN SubSeq(bs, Min(m, Len(bs)) + 1, Len(bs))
    ELSE SubSeq(bs, Max(Len(bs) + m, 0) + 1, Len(bs))

\* The element of a set of one: Only({F(x) : x \in {e}}) is F(e), with e
\* evaluated once.
Only(S) == CHOOSE r \in S : TRUE

RECURSIVE LStrip(_)
LStrip(bs) == IF bs # <<>> /\ IsSpace(bs[1]) THEN LStrip(Tail(bs)) ELSE bs

RECURSIVE RStrip(_)
RStrip(bs) ==
    IF bs # <<>> /\ IsSpace(bs[Len(bs)]) THEN RStrip(SubSeq(bs, 1, Len(bs) - 1)) ELSE bs

\* str.strip()
Strip(bs) == RStrip(LStrip(bs))

\* The number the first k digits of ds write.
RECURSIVE DigitsValTo(_, _)
DigitsValTo(ds, k) ==
    IF k = 0 THEN 0 ELSE 10 * DigitsValTo(ds, k - 1) + DigitVal(ds[k])

DigitsVal(ds) == Only({DigitsValTo(d, Len(d)) : d \in {ds}})

\* int(bs): white space around, an optional sign, then one digit or more.
PyInt(bs) ==
    LET s == Strip(bs)
        signed == s # <<>> /\ s[1] \in {"-", "+"}
        ds == IF signed THEN Tail(s) ELSE s
        good == ds # <<>> /\ \A i \in 1..Len(ds) : IsDigit(ds[i])
    IN  IF good
        THEN [ok |-> TRUE,
              val |-> IF signed /\ s[1] = "-" THEN 0 - DigitsVal(ds) ELSE DigitsVal(ds)]
        ELSE [ok |-> FALSE, val |-> 0]

\* str(n) for n >= 0.
RECURSIVE StrOfNat(_)
StrOfNat(n) ==
    IF n < 10 THEN <<DigitSeq[n + 1]>>
    ELSE StrOfNat(n \div 10) \o <<DigitSeq[(n % 10) + 1]>>

\* f"{n:08d}" for n >= 0: zero-padded to 8 digits, longer when n needs more.
Fmt08d(n) ==
    LET s == StrOfNat(n)
    IN  [i \in 1..Max(8 - Len(s), 0) |-> "0"] \o s

IsPrefix(a, b) == Len(a) <= Len(b) /\ SubSeq(b, 1, Len(a)) = a

RECURSIVE Concat(_)
Concat(ss) == IF ss = <<>> THEN <<>> ELSE Head(ss) \o Concat(Tail(ss))

Rep(n, c) == [i \in 1..n |-> c]

(***************************************************************************)
(* encapFramedSock.py                                                      *)
(***************************************************************************)
RecvMax == 100

\* EncapFramedSock.send: the bytes one call puts on the stream.
FrameOf(payload) == StrOfNat(Len(payload)) \o <<COLON>> \o payload

RECURSIVE Frames(_)
Frames(ps) == IF ps = <<>> THEN <<>> ELSE FrameOf(Head(ps)) \o Frames(Tail(ps))

\* Index of the first ':' of bs, 0 when there is none.
FirstColon(bs) ==
    IF \E i \in 1..Len(bs) : bs[i] = COLON
    THEN CHOOSE i \in 1..Len(bs) : bs[i] = COLON /\ \A j \in 1..(i - 1) : bs[j] # COLON
    ELSE 0

\* re.match(b'([^:]+):(.*)', rbuf, DOTALL): one byte or more before the first ':'.
ReMatch(bs) ==
    LET k == FirstColon(bs)
    IN  IF k >= 2
        THEN [hit |-> TRUE, lengthStr |-> SubSeq(bs, 1, k - 1),
              rest |-> SubSeq(bs, k + 1, Len(bs))]
        ELSE [hit |-> FALSE, lengthStr |-> <<>>, rest |-> bs]

\* A fresh call of receive: state and msgLength are locals of the call.
NewCall(rbuf) == [rbuf |-> rbuf, state |-> "getLength", msgLength |-> 0 - 1]

\* GetLength that rejects every length that is not an integer.
GetLengthRejecting(c) ==
    LET m == ReMatch(c.rbuf)
        n == PyInt(m.lengthStr)
    IN  IF c.state = "getLength" /\ m.hit
        THEN IF n.ok
             THEN [rbuf |-> m.rest, state |-> "getPayload", msgLength |-> n.val,
                   ret |-> "go", payload |-> <<>>]
             ELSE [rbuf |-> m.rest, state |-> c.state, msgLength |-> c.msgLength,
                   ret |-> "none", payload |-> <<>>]
        ELSE [rbuf |-> c.rbuf, state |-> c.state, msgLength |-> c.msgLength,
              ret |-> "go", payload |-> <<>>]

\* The getLength branch of the loop body: c is [rbuf, state, msgLength];
\* ret is "none" when the call returns None, "go" when control falls through.
GetLength(c) ==
    LET m == ReMatch(c.rbuf)
        n == PyInt(m.lengthStr)
    IN  IF c.state = "getLength" /\ m.hit
        THEN IF n.ok
             THEN [rbuf |-> m.rest, state |-> "getPayload", msgLength |-> n.val,
                   ret |-> "go", payload |-> <<>>]
             ELSE IF Len(m.rest) # 0
                  THEN [rbuf |-> m.rest, state |-> c.state, msgLength |-> c.msgLength,
                        ret |-> "none", payload |-> <<>>]
                  ELSE [rbuf |-> m.rest, state |-> "getPayload",
                        msgLength |-> c.msgLength, ret |-> "go", payload |-> <<>>]
        ELSE [rbuf |-> c.rbuf, state |-> c.state, msgLength |-> c.msgLength,
              ret |-> "go", payload |-> <<>>]

\* GetPayload with the comparison off by one (> for >=).
GetPayloadStrict(c) ==
    IF c.state = "getPayload" /\ Len(c.rbuf) > c.msgLength
    THEN [rbuf |-> PyTail(c.rbuf, c.msgLength), state |-> c.state,
          msgLength |-> c.msgLength, ret |-> "payload",
          payload |-> PyHead(c.rbuf, c.msgLength)]
    ELSE [rbuf |-> c.rbuf, state |-> c.state, msgLength |-> c.msgLength,
          ret |-> "block", payload |-> <<>>]

\* The getPayload branch: slices the message off the buffer when enough is there.
GetPayload(c) ==
    IF c.state = "getPayload" /\ Len(c.rbuf) >= c.msgLength
    THEN [rbuf |-> PyTail(c.rbuf, c.msgLength), state |-> c.state,
          msgLength |-> c.msgLength, ret |-> "payload",
          payload |-> PyHead(c.rbuf, c.msgLength)]
    ELSE [rbuf |-> c.rbuf, state |-> c.state, msgLength |-> c.msgLength,
          ret |-> "block", payload |-> <<>>]

\* The loop body of receive up to the socket read: ret is "payload", "none"
\* (the call returns None) or "block" (the call goes on to sock.recv).
RecvTop(c) ==
    LET g == GetLength(c)
    IN  IF g.ret = "none" THEN g ELSE GetPayload(g)

\* The sizes a socket read returns when n bytes are waiting: 1..min(n, RecvMax),
\* sampled at both ends.
ReadSizes(n) == {k \in {1, 2, 3, Min(n, RecvMax)} : k <= Min(n, RecvMax)}

(***************************************************************************)
(* A framed connection on its own: a writer calling send, a reader calling *)
(* receive again and again.  fr = [sent, wire, shut, call, at, got, nones] *)
(***************************************************************************)
MaxSends == 2

FramePayloads ==
    { <<>>, <<"a">>, <<COLON>>, <<NL>>, <<"1", COLON>>, <<"2", COLON, "a", "b">>,
      <<"a", COLON, NL, "1", "0", COLON, "b", "b", "b", "b">>,
      Rep(RecvMax + 1, "a") }

FrInit ==
    /\ fr = [sent |-> <<>>, wire |-> <<>>, shut |-> FALSE, call |-> NewCall(<<>>),
             at |-> "top", got |-> <<>>, nones |-> 0]
    /\ ar = <<>>
    /\ sv = <<>>
    /\ net = <<>>
    /\ disk = <<>>
    /\ cl = <<>>

\* EncapFramedSock.send(payload) by the writer.
FrSend(p) ==
    /\ ~fr.shut
    /\ Len(fr.sent) < MaxSends
    /\ fr' = [fr EXCEPT !.sent = Append(@, p), !.wire = @ \o FrameOf(p)]
    /\ UNCHANGED <<ar, sv, net, disk, cl>>

\* The writer's shutdown(SHUT_WR).
FrShutdown ==
    /\ ~fr.shut
    /\ fr' = [fr EXCEPT !.shut = TRUE]
    /\ UNCHANGED <<ar, sv, net, disk, cl>>

\* The reader runs the loop body of receive up to the socket read.
FrReceiveTop ==
    /\ fr.at = "top"
    /\ LET r == RecvTop(fr.call)
       IN  \/ /\ r.ret = "payload"
              /\ fr' = [fr EXCEPT !.got = Append(@, r.payload), !.call = NewCall(r.rbuf)]
           \/ /\ r.ret = "none"
              /\ fr' = [fr EXCEPT !.nones = @ + 1, !.call = NewCall(r.rbuf),
                                  !.at = "stopped"]
           \/ /\ r.ret = "block"
              /\ fr' = [fr EXCEPT !.call = [rbuf |-> r.rbuf, state |-> r.state,
                                            msgLength |-> r.msgLength],
                                  !.at = "recv"]
    /\ UNCHANGED <<ar, sv, net, disk, cl>>

\* The reader's sock.recv(100) and the lines after it.
FrSockRecv ==
    /\ fr.at = "recv"
    /\ \/ /\ fr.wire # <<>>
          /\ \E k \in ReadSizes(Len(fr.wire)) :
                fr' = [fr EXCEPT !.call.rbuf = @ \o SubSeq(fr.wire, 1, k),
                                 !.wire = SubSeq(@, k + 1, Len(@)),
                                 !.at = "top"]
       \/ /\ fr.wire = <<>>
          /\ fr.shut
          /\ fr' = [fr EXCEPT !.nones = @ + 1, !.at = "stopped"]
    /\ UNCHANGED <<ar, sv, net, disk, cl>>

FrNext ==
    \/ \E p \in FramePayloads : FrSend(p)
    \/ FrShutdown
    \/ FrReceiveTop
    \/ FrSockRecv

SpecFrame == FrInit /\ [][FrNext]_vars

\* The payloads sent and not yet returned by a receive call.
FrPending == SubSeq(fr.sent, Len(fr.got) + 1, Len(fr.sent))

\* C1: the payloads successive receive calls return are the payloads sent, byte
\* for byte and in order, however the stream is cut into socket reads: what has
\* been returned is a prefix of what was sent; while a call looks for a length
\* the unread bytes are exactly the frames of the payloads still to return (no
\* byte delivered twice or skipped); a call blocks with nothing in flight, or
\* returns None, only once every payload sent has been returned.
C1_FrameRoundTrip ==
    /\ IsPrefix(fr.got, fr.sent)
    /\ (fr.at # "stopped" /\ fr.call.state = "getLength")
          => fr.call.rbuf \o fr.wire = Frames(FrPending)
    /\ (fr.at = "recv" /\ fr.wire = <<>>) => fr.got = fr.sent
    /\ fr.nones > 0 => (fr.shut /\ fr.got = fr.sent)

\* C1 witness: two payloads or more, the empty one and one longer than a socket
\* read among them, all returned.
C1_Witness ==
    /\ Len(fr.got) >= 2
    /\ fr.got = fr.sent
    /\ \E i \in 1..Len(fr.got) : fr.got[i] = <<>>
    /\ \E i \in 1..Len(fr.got) : Len(fr.got[i]) > RecvMax

(***************************************************************************)
(* receive on a stream of any bytes: the peer has written raw (frames that *)
(* send could not have written among them) and half-closes at some point;  *)
(* the reader calls receive until a call returns None.                     *)
(***************************************************************************)
RawWires ==
    { <<"a", COLON>>, <<"a", COLON, "b">>, <<"a", COLON, "b", "2", COLON, "c", "d">>,
      <<"-", "2", COLON, "a", "b", "c">>, <<"-", "1", COLON>>,
      <<"3", COLON, "a", "b">>, <<"2", COLON, "a", "b", "1", COLON, "c">>,
      <<"1", "2">>, <<COLON, "a", "b">>, <<" ", "2", " ", COLON, "a", "b">>,
      <<"0", COLON, "1", COLON>>, <<>> }

WireInit ==
    /\ \E raw \in RawWires :
          fr = [sent |-> <<>>, wire |-> raw, shut |-> FALSE, call |-> NewCall(<<>>),
                at |-> "top", got |-> <<>>, nones |-> 0, raw |-> raw]
    /\ ar = <<>>
    /\ sv = <<>>
    /\ net = <<>>
    /\ disk = <<>>
    /\ cl = <<>>

WireNext ==
    \/ FrShutdown
    \/ FrReceiveTop
    \/ FrSockRecv

SpecWire == WireInit /\ [][WireNext]_vars

\* The step is one of the reader: the loop body of receive up to the socket
\* read, with the regular expression finding a delimiter behind a length
\* that int() rejects.
BadLengthStep ==
    /\ fr.at = "top"
    /\ fr.call.state = "getLength"
    /\ ReMatch(fr.call.rbuf).hit
    /\ ~PyInt(ReMatch(fr.call.rbuf).lengthStr).ok
    /\ fr' # fr
    /\ fr'.shut = fr.shut

\* C16: when the delimiter is found behind bytes that are no integer, the call
\* returns None and delivers nothing if one byte or more is buffered behind the
\* ':'; with nothing buffered behind the ':' the call is not rejected: it goes
\* to the payload phase with msgLength still -1, where it returns at once the
\* empty payload.
C16_BadLength ==
    [][BadLengthStep =>
          IF ReMatch(fr.call.rbuf).rest # <<>>
          THEN /\ GetLength(fr.call).ret = "none"
               /\ fr'.nones = fr.nones + 1
               /\ fr'.got = fr.got
               /\ fr'.at = "stopped"
          ELSE /\ GetLength(fr.call).ret = "go"
               /\ GetLength(fr.call).state = "getPayload"
               /\ GetLength(fr.call).msgLength = 0 - 1
               /\ fr'.nones = fr.nones
               /\ fr'.got = Append(fr.got, <<>>)
               /\ fr'.at = "top"]_vars

\* C16 witness: of the bytes 'a:b' the reader had 'a:' buffered when it looked
\* for the length, and was not rejected: the call returned the empty payload;
\* the next call, with ':b' behind it, never finds a delimiter.
C16_Witness ==
    /\ fr.raw = <<"a", COLON, "b">>
    /\ fr.got = <<<<>>>>
    /\ fr.call.rbuf = <<"b">>
    /\ fr.nones = 0

\* The length field the call has read, or reads in this step, is an integer.
LengthParsed ==
    \/ fr.call.state = "getPayload"
    \/ PyInt(ReMatch(fr.call.rbuf).lengthStr).ok

\* C17 as stated: a call that has read an integer as length returns a payload
\* only when the buffer holds that number of bytes or more behind the
\* delimiter, and the payload has that number of bytes; when the peer has
\* closed and nothing more is to be read, the call returns None and delivers
\* nothing.
C17_WholePayloadOrNone ==
    [][/\ (fr.at = "top" /\ Len(fr'.got) > Len(fr.got) /\ LengthParsed) =>
             /\ Len(GetLength(fr.call).rbuf) >= GetLength(fr.call).msgLength
             /\ Len(fr'.got[Len(fr'.got)]) = GetLength(fr.call).msgLength
       /\ (fr.at = "recv" /\ fr.wire = <<>> /\ fr.shut /\ fr' # fr) =>
             /\ fr'.nones = fr.nones + 1
             /\ fr'.got = fr.got
             /\ fr'.at = "stopped"]_vars

(***************************************************************************)
(* The file system of the working directory: disk maps a path (a byte      *)
(* string) to the bytes of the file there.                                 *)
(***************************************************************************)
NoFiles == [p \in {} |-> <<>>]

Exists(fs, p) == p \in DOMAIN fs

\* open(p) with O_CREAT | O_TRUNC (os.open) or mode 'wb' (open).
Truncate(fs, p) == [q \in DOMAIN fs \cup {p} |-> IF q = p THEN <<>> ELSE fs[q]]

\* A write of bs at the end of the file at p.
AppendTo(fs, p, bs) == [fs EXCEPT ![p] = @ \o bs]

\* A write of bs at offset off of the file at p, as a descriptor with its own
\* offset does it; a gap past the end of the file reads as zero bytes.
WriteAt(fs, p, off, bs) ==
    LET old == IF p \in DOMAIN fs THEN fs[p] ELSE <<>>
        new == [i \in 1..Max(Len(old), off + Len(bs)) |->
                   IF i > off /\ i <= off + Len(bs) THEN bs[i - off]
                   ELSE IF i <= Len(old) THEN old[i] ELSE "\\0"]
    IN  [q \in DOMAIN fs \cup {p} |-> IF q = p THEN new ELSE fs[q]]

\* os.read(fd, n) at offset pos of the file at p.
ReadAt(fs, p, pos, n) == Slice(fs[p], pos, pos + n)

NewPrefix == <<"n", "e", "w", "_">>

\* 'new_' + name
New(name) == NewPrefix \o name

\* os.path.basename
BaseName(p) ==
    IF \E i \in 1..Len(p) : p[i] = "/"
    THEN LET k == CHOOSE i \in 1..Len(p) :
                     p[i] = "/" /\ \A j \in (i + 1)..Len(p) : p[j] # "/"
         IN  SubSeq(p, k + 1, Len(p))
    ELSE p

(***************************************************************************)
(* archiver.py                                                             *)
(***************************************************************************)
CopyChunk == 4096

\* The copy loop of Archiver.archive: reads of CopyChunk bytes until one is empty.
RECURSIVE ArchiveCopy(_, _, _, _)
ArchiveCopy(fs, out, file, pos) ==
    LET chunk == ReadAt(fs, file, pos, CopyChunk)
    IN  IF chunk = <<>> THEN fs
        ELSE ArchiveCopy(AppendTo(fs, out, chunk), out, file, pos + Len(chunk))

\* EntryHeader with the size written unpadded (str(n) for f"{n:08d}").
EntryHeaderUnpadded(fs, file) ==
    StrOfNat(Len(fs[file])) \o Fmt08d(Len(BaseName(file))) \o BaseName(file)

\* The header Archiver.archive writes for a file: size, name length, name.
EntryHeader(fs, file) ==
    Fmt08d(Len(fs[file])) \o Fmt08d(Len(BaseName(file))) \o BaseName(file)

\* One pass of the loop of Archiver.archive over `file` (not the output path).
ArchiveOne(fs, out, file) ==
    IF ~Exists(fs, file)
    THEN [fs |-> fs, status |-> "exit"]
    ELSE [fs |-> ArchiveCopy(AppendTo(fs, out, EntryHeader(fs, file)), out, file, 0),
          status |-> "run"]

\* Archiver.archive(out, files) as a whole.
RECURSIVE ArchiveLoop(_, _, _)
ArchiveLoop(fs, out, files) ==
    IF files = <<>> THEN [fs |-> fs, status |-> "ok"]
    ELSE Only({IF r.status = "exit" THEN r ELSE ArchiveLoop(r.fs, out, Tail(files)) :
               r \in {ArchiveOne(fs, out, Head(files))}})

ArchiveAll(fs, out, files) == ArchiveLoop(Truncate(fs, out), out, files)

\* The copy loop of Archiver.extract: status "run" when all `remaining` bytes
\* were copied, "raise" when the archive ends first (os.close(fd_out), then
\* sys.exit(1), then the finally clause closes fd_out again: OSError).
RECURSIVE ExtractCopy(_, _, _, _, _)
ExtractCopy(fs, path, pos, out, remaining) ==
    IF remaining > 0
    THEN LET chunk == ReadAt(fs, path, pos, Min(remaining, CopyChunk))
         IN  IF chunk = <<>> THEN [fs |-> fs, pos |-> pos, status |-> "raise"]
             ELSE ExtractCopy(AppendTo(fs, out, chunk), path, pos + Len(chunk), out,
                              remaining - Len(chunk))
    ELSE [fs |-> fs, pos |-> pos, status |-> "run"]

\* ShortSize with the first-pass test dropped: a short read always ends cleanly.
ShortSizeLenient(iters) == "ok"

\* The size field came short: an error on the first pass, the end otherwise.
ShortSize(iters) == IF iters = 0 THEN "exit" ELSE "ok"

\* The state of a running Archiver.extract(path): the file system, the offset of
\* fd_in, the passes made, the status ("run", or how the call ended: "ok" for a
\* return, "exit" for sys.exit(1), "raise" for an exception) and the entries
\* written so far, in order.
ExtractStart(fs, path) ==
    IF Exists(fs, path)
    THEN [fs |-> fs, path |-> path, pos |-> 0, iters |-> 0, status |-> "run",
          outs |-> <<>>]
    ELSE [fs |-> fs, path |-> path, pos |-> 0, iters |-> 0, status |-> "exit",
          outs |-> <<>>]

\* One pass of the while loop of Archiver.extract.
ExtractOne(x) ==
    LET sizeB == ReadAt(x.fs, x.path, x.pos, 8)
        size == PyInt(sizeB)
        lenB == ReadAt(x.fs, x.path, x.pos + 8, 8)
        nlen == PyInt(lenB)
        nameB == ReadAt(x.fs, x.path, x.pos + 16, nlen.val)
        out == New(nameB)
        c == ExtractCopy(Truncate(x.fs, out), x.path, x.pos + 16 + Len(nameB), out,
                         size.val)
    IN  IF Len(sizeB) < 8 THEN [x EXCEPT !.status = ShortSize(x.iters)]
        ELSE IF ~size.ok THEN [x EXCEPT !.status = "raise", !.iters = @ + 1]
        ELSE IF Len(lenB) < 8 THEN [x EXCEPT !.status = "exit", !.iters = @ + 1]
        ELSE IF ~nlen.ok \/ nlen.val < 0
             THEN [x EXCEPT !.status = "raise", !.iters = @ + 1]
        ELSE IF Len(nameB) < 1 THEN [x EXCEPT !.status = "exit", !.iters = @ + 1]
        ELSE [x EXCEPT !.fs = c.fs, !.pos = c.pos, !.iters = @ + 1,
                       !.status = c.status,
                       !.outs = Append(@, [name |-> out, size |-> size.val,
                                           nlen |-> nlen.val, status |-> c.status])]

\* Archiver.extract(path) as a whole.
RECURSIVE ExtractLoop(_)
ExtractLoop(x) ==
    IF x.status = "run" THEN Only({ExtractLoop(y) : y \in {ExtractOne(x)}}) ELSE x

ExtractAll(fs, path) == Only({ExtractLoop(x) : x \in {ExtractStart(fs, path)}})

(***************************************************************************)
(* The codec on its own: Archiver.archive(ArchPath, files), then           *)
(* Archiver.extract(ArchPath); or extract of an archive found on disk.     *)
(* ar = [mode, pc, files, i, x, orig]                                      *)
(***************************************************************************)
MaxFiles == 2

ArchPath == <<"t">>

InputNames == {<<"a">>, <<"b">>}

\* A path no file is at.
MissingName == <<"c">>

Contents ==
    { <<>>, <<"7">>, <<"a", NL>>, <<"0", "0", "0", "0", "0", "0", "0", "1">> }

FileLists ==
    UNION {[1..n -> InputNames \cup {MissingName}] : n \in 0..MaxFiles}

\* The archive of one file 'a' that holds '7'.
OneEntry == ArchiveAll([p \in {<<"a">>} |-> <<"7">>], ArchPath, <<<<"a">>>>).fs[ArchPath]

\* Archives found on disk that archive() did not write: empty, shorter than a
\* size field, and an entry followed by a second one cut in its size field,
\* in its name-length field, in its name, and before its name.
RawArchives ==
    { <<>>, <<"0", "0", "0">>,
      OneEntry \o <<"0", "0", "0">>,
      OneEntry \o Fmt08d(0) \o <<"0", "0", "0", "0">>,
      OneEntry \o Fmt08d(0) \o Fmt08d(2) \o <<"b">>,
      OneEntry \o Fmt08d(0) \o Fmt08d(1) }

NoExtract ==
    [fs |-> NoFiles, path |-> ArchPath, pos |-> 0, iters |-> 0, status |-> "run",
     outs |-> <<>>]

ArInit ==
    /\ \/ /\ disk \in [InputNames -> Contents]
          /\ \E fl \in FileLists :
                ar = [mode |-> "archive", pc |-> "archive_open", files |-> fl, i |-> 1,
                      x |-> NoExtract, orig |-> disk]
       \/ /\ \E raw \in RawArchives : disk = [p \in {ArchPath} |-> raw]
          /\ ar = [mode |-> "raw", pc |-> "extract_open", files |-> <<>>, i |-> 1,
                   x |-> NoExtract, orig |-> disk]
    /\ fr = <<>>
    /\ sv = <<>>
    /\ net = <<>>
    /\ cl = <<>>

\* Archiver.archive opens (creates, truncates) the output file.
ArArchiveOpen ==
    /\ ar.pc = "archive_open"
    /\ disk' = Truncate(disk, ArchPath)
    /\ ar' = [ar EXCEPT !.pc = "archive_loop"]
    /\ UNCHANGED <<fr, sv, net, cl>>

\* One pass of the loop of Archiver.archive, or its end.
ArArchiveFile ==
    /\ ar.pc = "archive_loop"
    /\ IF ar.i > Len(ar.files)
       THEN /\ ar' = [ar EXCEPT !.pc = "extract_open"]
            /\ UNCHANGED disk
       ELSE LET r == ArchiveOne(disk, ArchPath, ar.files[ar.i])
            IN  /\ disk' = r.fs
                /\ ar' = [ar EXCEPT !.i = @ + 1,
                                    !.pc = IF r.status = "exit" THEN "exited" ELSE @]
    /\ UNCHANGED <<fr, sv, net, cl>>

\* Archiver.extract opens the archive.
ArExtractOpen ==
    /\ ar.pc = "extract_open"
    /\ LET x == ExtractStart(disk, ArchPath)
       IN  ar' = [ar EXCEPT !.x = [x EXCEPT !.fs = NoFiles],
                            !.pc = IF x.status = "run" THEN "extract_loop" ELSE "done"]
    /\ UNCHANGED <<fr, sv, net, disk, cl>>

\* One pass of the loop of Archiver.extract.
ArExtractEntry ==
    /\ ar.pc = "extract_loop"
    /\ LET x == ExtractOne([ar.x EXCEPT !.fs = disk])
       IN  /\ disk' = x.fs
           /\ ar' = [ar EXCEPT !.x = [x EXCEPT !.fs = NoFiles],
                               !.pc = IF x.status = "run" THEN @ ELSE "done"]
    /\ UNCHANGED <<fr, sv, net, cl>>

ArNext ==
    \/ ArArchiveOpen
    \/ ArArchiveFile
    \/ ArExtractOpen
    \/ ArExtractEntry

SpecArch == ArInit /\ [][ArNext]_vars

C18_ShortReadFatal ==
    (ar.pc = "done" /\ ar.x.status = "ok") =>
        /\ ar.x.pos = Len(disk[ArchPath])
        /\ \A k \in 1..Len(ar.x.outs) :
              Len(ar.x.outs[k].name) = Len(NewPrefix) + ar.x.outs[k].nlen

(***************************************************************************)
(* framedThreadServer.py: one Server thread per connection.                *)
(* sv[s] holds the fields of the Server object of connection s, the        *)
(* position of its thread (pc, at, call) and a record of what it did       *)
(* (path, written, fed, nfed, rem, hdr, log, outs); net[s] is the          *)
(* connection.                                                             *)
(* The handlers are operators on w = [s, fs, back]: the session, the file  *)
(* system and the bytes sent to the peer.                                  *)
(***************************************************************************)
Ev(e, a) == [ev |-> e, arg |-> a]

Logged(v, e) == \E i \in 1..Len(v.log) : v.log[i].ev = e

Count(v, e) == Cardinality({i \in 1..Len(v.log) : v.log[i].ev = e})

Note(w, e, a) == [w EXCEPT !.s.log = Append(@, Ev(e, a))]

AckPrefix ==
    <<"R", "e", "c", "e", "i", "v", "e", "d", " ", "a", "n", "d", " ",
      "e", "x", "t", "r", "a", "c", "t", "e", "d", " ">>

\* f"Received and extracted {self.archive_name}\n".encode()
AckText(name) == AckPrefix \o name \o <<NL>>

\* self.fd_out.close()
CloseSink(w) ==
    IF w.s.fd_out = "open"
    THEN Note([w EXCEPT !.s.fd_out = "closed"], "sink_close", w.s.path)
    ELSE w

\* self.fsock.close()
CloseSock(w) ==
    IF w.s.sock = "open"
    THEN Note([w EXCEPT !.s.sock = "closed"], "conn_close", <<>>)
    ELSE w

\* Server.cleanup
Cleanup(w) == CloseSock(IF w.s.fd_out = "open" THEN CloseSink(w) ELSE w)

\* self.fsock.send(payload): OSError on a socket this side has closed.
SockSend(w, payload) ==
    IF w.s.sock = "closed"
    THEN Note([w EXCEPT !.s.pc = "crashed"], "send_on_closed", payload)
    ELSE Note([w EXCEPT !.back = @ \o FrameOf(payload)], "ack", payload)

\* Complete with > for >=.
CompleteLate(v) == v.received > v.file_size

\* The test of handle_data for "all bytes are read".
Complete(v) == v.received >= v.file_size

\* The path Server.handle_data hands to Archiver.extract.
ExtractPath(v) == v.archive_name

\* The path Server.handle_header opens the sink at.
SinkPath(v) == New(v.archive_name)

\* Chunk without the cut at needed: the whole buffer is written.
ChunkWhole(v) == v.buffer

\* needed = file_size - received; chunk = self.buffer[:needed]
Chunk(v) == PyHead(v.buffer, v.file_size - v.received)

\* The while loop of Server.handle_data; wfail: the write to the sink raises.
RECURSIVE WriteLoop(_, _)
WriteLoop(w, wfail) ==
    IF w.s.buffer # <<>> /\ w.s.received < w.s.file_size
    THEN IF wfail THEN [w EXCEPT !.s.pc = "crashed"]
         ELSE Only({WriteLoop([w EXCEPT
                                  !.fs = WriteAt(@, w.s.path, Len(w.s.written), chunk),
                                  !.s.written = @ \o chunk,
                                  !.s.received = @ + Len(chunk),
                                  !.s.buffer = PyTail(@, Len(chunk))], wfail) :
                    chunk \in {Chunk(w.s)}})
    ELSE w

\* The completion branch of Server.handle_data once the sink is closed (c) and
\* Archiver.extract has run (x).
AfterDecode(c, x) ==
    LET d == Note([c EXCEPT !.fs = x.fs,
                            !.s.outs = @ \o [i \in 1..Len(x.outs) |->
                                               [name |-> x.outs[i].name,
                                                bytes |-> x.fs[x.outs[i].name]]]],
                  "decode", ExtractPath(c.s))
    IN  IF x.status = "exit" THEN [d EXCEPT !.s.pc = "exited"]
        ELSE IF x.status = "raise" THEN [d EXCEPT !.s.pc = "crashed"]
        ELSE Only({IF a.s.pc = "run" THEN Cleanup(a) ELSE a :
                   a \in {SockSend(d, AckText(c.s.archive_name))}})

\* The completion branch of Server.handle_data.
Finish(w) ==
    Only({AfterDecode(CloseSink(w), x) : x \in {ExtractAll(w.fs, ExtractPath(w.s))}})

\* Server.handle_data
HandleData(w, wfail) ==
    Only({IF l.s.pc = "run" /\ Complete(l.s) THEN Finish(l) ELSE l :
          l \in {WriteLoop(w, wfail)}})

\* Indices of the line separators of bs, in order.
NLs(bs) == {i \in 1..Len(bs) : bs[i] = NL}

\* self.buffer.split(b'\n', 2), when it has three parts.
Split3(bs) ==
    LET i == CHOOSE k \in NLs(bs) : \A j \in NLs(bs) : k <= j
        j == CHOOSE k \in NLs(bs) \ {i} : \A m \in NLs(bs) \ {i} : k <= m
    IN  [name |-> SubSeq(bs, 1, i - 1), size |-> SubSeq(bs, i + 1, j - 1),
         remainder |-> SubSeq(bs, j + 1, Len(bs))]

\* Server.handle_header once the size has parsed: the sink is opened.
OpenSink(w, parts, size) ==
    [w EXCEPT !.s.file_size = size,
              !.fs = Truncate(@, SinkPath(w.s)),
              !.s.fd_out = "open",
              !.s.path = SinkPath(w.s),
              !.s.received = Len(parts.remainder),
              !.s.rem = parts.remainder,
              !.s.hdr = Len(w.s.fed) - Len(parts.remainder),
              !.s.buffer = parts.remainder,
              !.s.state = "data"]

\* Server.handle_header
HandleHeader(w, wfail) ==
    IF Cardinality(NLs(w.s.buffer)) < 2 THEN w
    ELSE Only({IF ~PyInt(Strip(parts.size)).ok THEN [named EXCEPT !.s.pc = "crashed"]
               ELSE Only({HandleData(o, wfail) :
                          o \in {OpenSink(named, parts, PyInt(Strip(parts.size)).val)}}) :
               parts \in {Split3(w.s.buffer)},
               named \in {[w EXCEPT !.s.archive_name = Strip(Split3(w.s.buffer).name)]}})

\* NoPayload that sees only a receive that returned None.
NoPayloadNoneOnly(r) == r.ret = "none"

\* if not payload: receive returned None, or a payload of no bytes.
NoPayload(r) == r.ret = "none" \/ r.payload = <<>>

\* self.buffer += payload
Accumulate(v, payload) == v.buffer \o payload

\* The body of the loop of Server.run once receive has returned: r.ret is
\* "payload" or "none".
RunBody(w, r, wfail) ==
    IF NoPayload(r)
    THEN [Cleanup(w) EXCEPT !.s.pc = "done"]
    ELSE Only({IF h.s.pc = "run" /\ h.s.state = "data" THEN HandleData(h, wfail) ELSE h :
               h \in {IF w.s.state = "header"
                      THEN Only({HandleHeader(b, wfail) :
                                 b \in {[w EXCEPT !.s.buffer = Accumulate(w.s, r.payload),
                                                  !.s.fed = @ \o r.payload,
                                                  !.s.nfed = @ + 1]}})
                      ELSE [w EXCEPT !.s.buffer = Accumulate(w.s, r.payload),
                                     !.s.fed = @ \o r.payload,
                                     !.s.nfed = @ + 1]}})

\* Server.__init__
NewSession ==
    [pc |-> "run", at |-> "top", call |-> NewCall(<<>>), state |-> "header",
     buffer |-> <<>>, archive_name |-> <<>>, file_size |-> 0, received |-> 0,
     fd_out |-> "none", sock |-> "open",
     path |-> <<>>, written |-> <<>>, fed |-> <<>>, nfed |-> 0, rem |-> <<>>,
     hdr |-> 0, log |-> <<>>, outs |-> <<>>]

\* A connection: wire, the bytes on their way to the receiver; shut, the sender
\* has half-closed; back, the bytes on their way to the sender; bshut, the
\* receiver has closed; todo, the payloads the sending peer has yet to send;
\* acked, the receiving peer has sent its acknowledgement.
NewConn(script) ==
    [wire |-> <<>>, shut |-> FALSE, back |-> <<>>, bshut |-> FALSE, todo |-> script,
     acked |-> FALSE]

\* The bytes of the payloads handed to the session after the header's second
\* line separator.
DataIn(v) == PyTail(v.fed, v.hdr)

\* The peer sends the next payload of its script.
PeerSend(s) ==
    /\ ~net[s].shut
    /\ net[s].todo # <<>>
    /\ net' = [net EXCEPT ![s].wire = @ \o FrameOf(Head(net[s].todo)),
                          ![s].todo = Tail(@)]
    /\ UNCHANGED <<fr, ar, sv, disk, cl>>

\* The peer half-closes, shutdown(SHUT_WR), after the last payload it sends.
PeerShutdown(s) ==
    /\ ~net[s].shut
    /\ net[s].todo = <<>>
    /\ net' = [net EXCEPT ![s].shut = TRUE]
    /\ UNCHANGED <<fr, ar, sv, disk, cl>>

\* What a step of session s leaves behind: w is the outcome of its handlers.
Commit(s, w, call, at) ==
    /\ sv' = [sv EXCEPT ![s] = [w.s EXCEPT !.call = call, !.at = at]]
    /\ disk' = w.fs
    /\ net' = [net EXCEPT ![s].back = w.back, ![s].bshut = (w.s.sock = "closed")]

World(s) == [s |-> sv[s], fs |-> disk, back |-> net[s].back]

\* The thread of s runs receive up to the socket read; when receive returns,
\* the rest of the loop body of Server.run.
SvReceiveTop(s) ==
    /\ sv[s].pc = "run"
    /\ sv[s].at = "top"
    /\ \E r \in {RecvTop(sv[s].call)} :
           IF r.ret = "block"
           THEN /\ sv' = [sv EXCEPT ![s].call = [rbuf |-> r.rbuf, state |-> r.state,
                                                 msgLength |-> r.msgLength],
                                    ![s].at = "recv"]
                /\ UNCHANGED <<disk, net>>
           ELSE \E wfail \in BOOLEAN, w0 \in {World(s)} :
                    \E w \in {RunBody(w0, r, wfail)} :
                        Commit(s, w, NewCall(r.rbuf), "top")
    /\ UNCHANGED <<fr, ar, cl>>

\* The thread of s in sock.recv(100): bytes arrive, or the peer has shut down,
\* or this side has closed the socket (OSError); the last two make receive
\* return None.
SvSockRecv(s) ==
    /\ sv[s].pc = "run"
    /\ sv[s].at = "recv"
    /\ IF sv[s].sock = "closed" \/ (net[s].wire = <<>> /\ net[s].shut)
       THEN \E w \in {RunBody(World(s), [ret |-> "none", payload |-> <<>>], FALSE)} :
                Commit(s, w, NewCall(sv[s].call.rbuf), "top")
       ELSE /\ net[s].wire # <<>>
            /\ \E k \in ReadSizes(Len(net[s].wire)) :
                  /\ sv' = [sv EXCEPT ![s].call.rbuf = @ \o SubSeq(net[s].wire, 1, k),
                                      ![s].at = "top"]
                  /\ net' = [net EXCEPT ![s].wire = SubSeq(@, k + 1, Len(@))]
            /\ UNCHANGED disk
    /\ UNCHANGED <<fr, ar, cl>>

(***************************************************************************)
(* One receiver session and its peer.  The peer sends the frames of a      *)
(* header (whole, cut in two, with data behind it, malformed or            *)
(* unfinished), then up to MaxData further payloads, and half-closes after *)
(* the last one (a short script is a peer that stops mid-transfer).        *)
(***************************************************************************)
MaxData == 2

\* The header payload of Client.send_header, the size given as text.
Header(name, sizeText) == name \o <<NL>> \o sizeText \o <<NL>>

NameX == <<"x">>

HeaderScripts ==
    { <<Header(NameX, <<"2">>)>>,
      <<Header(NameX, <<"0">>)>>,
      <<NameX \o <<NL>>, <<"2", NL>>>>,
      <<NameX \o <<NL>>>>,
      <<Header(NameX, <<"2">>) \o <<"a">>>>,
      <<Header(NameX, <<"3">>) \o <<"a">>>>,
      <<Header(NameX, <<"q">>)>>,
      <<Header(NameX, <<>>)>>,
      <<Header(NameX, <<"-", "5">>)>> }

DataPayloads == { <<"a">>, <<"b", "c">>, <<"a", "b", "c">>, <<>> }

DataScripts == UNION {[1..n -> DataPayloads] : n \in 0..MaxData}

Scripts == {h \o d : h \in HeaderScripts, d \in DataScripts}

\* The archive archive() writes for one file.
ArchiveOf(name, content) ==
    ArchiveAll([p \in {name} |-> content], ArchPath, <<name>>).fs[ArchPath]

\* The working directory of the server when the session starts: empty, or (a
\* sender run from the same directory) with the sender's archive in it.
SvDisks == { NoFiles, [p \in {NameX} |-> ArchiveOf(<<"a">>, <<"q">>)] }

SvInit ==
    /\ \E script \in Scripts : net = [s \in {"s1"} |-> NewConn(script)]
    /\ sv = [s \in {"s1"} |-> NewSession]
    /\ disk \in SvDisks
    /\ fr = <<>>
    /\ ar = <<>>
    /\ cl = <<>>

SvNext ==
    \/ \E s \in DOMAIN sv : PeerSend(s)
    \/ \E s \in DOMAIN sv : PeerShutdown(s)
    \/ \E s \in DOMAIN sv : SvReceiveTop(s)
    \/ \E s \in DOMAIN sv : SvSockRecv(s)

SpecServer == SvInit /\ [][SvNext]_vars

\* The header of session v was parsed from payloads that end with its second
\* line separator, and declares a size of 0 or more.
PlainHeader(v) == v.state = "data" /\ v.rem = <<>> /\ v.file_size >= 0

\* C2: after a header that declares N, with the data in the frames behind it,
\* the sink is closed and extraction invoked in the step that writes the N-th
\* byte: the sink never holds more than N bytes, extraction is invoked only
\* with N bytes written and the sink closed, it has been invoked as soon as N
\* bytes are written, and what the sink holds are the first bytes received
\* after the header, in order.
C2_ExactCompletion ==
    \A s \in DOMAIN sv :
        PlainHeader(sv[s]) =>
            /\ Len(sv[s].written) <= sv[s].file_size
            /\ Logged(sv[s], "decode") =>
                  (Len(sv[s].written) = sv[s].file_size /\ sv[s].fd_out = "closed")
            /\ Len(sv[s].written) = sv[s].file_size =>
                  (Logged(sv[s], "decode") /\ sv[s].fd_out = "closed")
            /\ sv[s].written = PyHead(DataIn(sv[s]), Len(sv[s].written))
            /\ disk[sv[s].path] = sv[s].written

\* C2 witness: a header declaring 2, then two data frames of one byte each;
\* the sink holds both bytes and extraction was invoked.
C2_Witness ==
    \E s \in DOMAIN sv :
        /\ PlainHeader(sv[s])
        /\ sv[s].file_size = 2
        /\ sv[s].written = <<"a", "a">>
        /\ DataIn(sv[s]) = <<"a", "a">>
        /\ Logged(sv[s], "decode")

\* The names of the events of a session, in order.
Evs(v) == [i \in 1..Len(v.log) |-> v.log[i].ev]

\* C3 as stated: in every session the completion sequence happens at most once
\* and in order: sink closed, Decode once, one acknowledgement 'Received and
\* extracted <archive-name>\n', connection closed; nothing follows, and nothing
\* is sent on the closed connection.  (A session that does not complete closes
\* the sink, if open, and the connection.)
C3_CompletionOnce ==
    \A s \in DOMAIN sv :
        /\ \/ IsPrefix(Evs(sv[s]), <<"sink_close", "decode", "ack", "conn_close">>)
           \/ Evs(sv[s]) \in {<<"conn_close">>, <<"sink_close", "conn_close">>}
        /\ \A i \in 1..Len(sv[s].log) :
              sv[s].log[i].ev = "ack" => sv[s].log[i].arg = AckText(sv[s].archive_name)

\* C4 as stated: a session that was handed more bytes after the header than
\* the header declares neither extracts nor acknowledges.
C4_OverlongRejected ==
    \A s \in DOMAIN sv :
        (sv[s].state = "data" /\ sv[s].file_size >= 0
            /\ Len(DataIn(sv[s])) > sv[s].file_size)
        => (~Logged(sv[s], "decode") /\ ~Logged(sv[s], "ack"))

\* C8 as stated: the path handed to Archiver.extract is the path the sink was
\* opened at.
C8_DecodesOwnSink ==
    \A s \in DOMAIN sv :
        \A i \in 1..Len(sv[s].log) :
            sv[s].log[i].ev = "decode" => sv[s].log[i].arg = sv[s].path

\* C10 as stated: a session whose thread has stopped has no open sink.
C10_SinkClosedAtStop ==
    \A s \in DOMAIN sv :
        sv[s].pc \in {"done", "crashed", "exited"} => sv[s].fd_out # "open"

\* C11 as stated: a session stopped by a receive that yielded no message, with
\* its header incomplete or with fewer bytes in the sink than the header
\* declares, has not invoked Decode, has sent no acknowledgement, has no open
\* sink and has closed the connection.
C11_DropAborts ==
    \A s \in DOMAIN sv :
        (sv[s].pc = "done"
            /\ (sv[s].state = "header" \/ Len(sv[s].written) < sv[s].file_size))
        => /\ ~Logged(sv[s], "decode")
           /\ ~Logged(sv[s], "ack")
           /\ sv[s].fd_out # "open"
           /\ sv[s].sock = "closed"

\* C12 as stated: once the header is parsed, Server.received is the number of
\* bytes written to the sink.
C12_ReceivedIsWritten ==
    \A s \in DOMAIN sv :
        sv[s].state = "data" => sv[s].received = Len(sv[s].written)

SecondNL(bs) ==
    CHOOSE j \in NLs(bs) : Cardinality({i \in NLs(bs) : i < j}) = 1

\* C14 as stated: while the payloads handed to a session in state 'header'
\* hold fewer than two line separators, handling a frame changes nothing but
\* the buffer, which holds these payloads end to end: no error, no sink,
\* archive_name, file_size and received as __init__ left them, nothing closed,
\* decoded or sent, the session still waiting for the next frame unless the
\* peer has closed.  The header is parsed in the step that brings the second
\* separator, and what is parsed depends on the bytes alone, not on the frames
\* they came in: the name is the text before the first separator, the size the
\* text between the two, the remainder what had come behind the second.
C14_HeaderAccumulates ==
    \A s \in DOMAIN sv :
        /\ (sv[s].state = "header" /\ Cardinality(NLs(sv[s].fed)) < 2) =>
              /\ sv[s].pc \in {"run", "done"}
              /\ sv[s].buffer = sv[s].fed
              /\ sv[s].fd_out = "none"
              /\ sv[s].archive_name = <<>>
              /\ sv[s].file_size = 0
              /\ sv[s].received = 0
              /\ sv[s].written = <<>>
              /\ sv[s].pc = "run" => (sv[s].log = <<>> /\ sv[s].sock = "open")
              /\ sv[s].pc = "done" => net[s].shut
        /\ (sv[s].state = "header" /\ Cardinality(NLs(sv[s].fed)) >= 2) =>
              sv[s].pc = "crashed"
        /\ sv[s].state = "data" =>
              /\ Cardinality(NLs(sv[s].fed)) >= 2
              /\ sv[s].hdr = SecondNL(sv[s].fed)
              /\ sv[s].archive_name = Strip(Split3(sv[s].fed).name)
              /\ sv[s].file_size = PyInt(Strip(Split3(sv[s].fed).size)).val
              /\ IsPrefix(sv[s].rem, DataIn(sv[s]))

\* The size field of the header among the payloads handed to session v does
\* not read as an unsigned integer: int() rejects it, or gives a negative number.
BadSize(v) ==
    /\ Cardinality(NLs(v.fed)) >= 2
    /\ \/ ~PyInt(Strip(Split3(v.fed).size)).ok
       \/ PyInt(Strip(Split3(v.fed).size)).val < 0

\* C15 as stated: a session whose header has a size field that is not an
\* unsigned integer fails at the header: it stays in state 'header', opens no
\* sink, invokes no Decode and sends no acknowledgement.
C15_BadSizeRejected ==
    \A s \in DOMAIN sv :
        BadSize(sv[s]) =>
            /\ sv[s].pc = "crashed"
            /\ sv[s].state = "header"
            /\ sv[s].fd_out = "none"
            /\ ~Logged(sv[s], "decode")
            /\ ~Logged(sv[s], "ack")

\* C19: a step in which receive returns a payload of no bytes (the frame
\* '0:') ends the session the way a closed connection does: cleanup closes the
\* sink if it is open and the socket, run returns; no Decode, no
\* acknowledgement, nothing written, in state 'header' and in state 'data',
\* whatever the bytes still missing and with the peer still connected.
C19_EmptyFrameStops ==
    [][\A s \in DOMAIN sv :
          (/\ sv[s].pc = "run"
           /\ sv[s].at = "top"
           /\ RecvTop(sv[s].call).ret = "payload"
           /\ RecvTop(sv[s].call).payload = <<>>
           /\ sv'[s] # sv[s])
          => /\ sv'[s].pc = "done"
             /\ sv'[s].sock = "closed"
             /\ sv'[s].fd_out = (IF sv[s].fd_out = "open" THEN "closed" ELSE sv[s].fd_out)
             /\ Count(sv'[s], "decode") = Count(sv[s], "decode")
             /\ Count(sv'[s], "ack") = Count(sv[s], "ack")
             /\ sv'[s].state = sv[s].state
             /\ sv'[s].written = sv[s].written
             /\ sv'[s].received = sv[s].received
             /\ sv'[s].fed = sv[s].fed
             /\ disk' = disk
             /\ net'[s].back = net[s].back]_vars

\* C19 witness: a session stopped in state 'data' with one byte of two
\* written, nothing decoded or acknowledged, its sink and socket closed, while
\* the peer has not closed: the frame after the data frame was '0:'.
C19_Witness ==
    \E s \in DOMAIN sv :
        /\ sv[s].pc = "done"
        /\ ~net[s].shut
        /\ sv[s].state = "data"
        /\ sv[s].file_size = 2
        /\ sv[s].written = <<"a">>
        /\ Evs(sv[s]) = <<"sink_close", "conn_close">>

(***************************************************************************)
(* Two receiver sessions side by side, as Server.run threads started by    *)
(* main for two accepted connections.  Each peer sends the archive of one  *)
(* file under its own archive name; both senders were run from the         *)
(* directory of the server, so their archives are on its disk.             *)
(***************************************************************************)
NameY == <<"y">>

EntryNames == {<<"a">>, <<"b">>}

\* What a sender puts on the connection for an archive: Client.send_header,
\* then Client.send_data (one frame, the archive being shorter than a chunk).
Transfer(name, archive) == <<Header(name, StrOfNat(Len(archive))), archive>>

MuInit ==
    /\ \E e \in EntryNames :
          /\ net = [s \in {"s1", "s2"} |->
                      IF s = "s1"
                      THEN NewConn(Transfer(NameX, ArchiveOf(<<"a">>, <<"1">>)))
                      ELSE NewConn(Transfer(NameY, ArchiveOf(e, <<"2">>)))]
          /\ disk = [p \in {NameX, NameY} |->
                       IF p = NameX THEN ArchiveOf(<<"a">>, <<"1">>)
                       ELSE ArchiveOf(e, <<"2">>)]
    /\ sv = [s \in {"s1", "s2"} |-> NewSession]
    /\ fr = <<>>
    /\ ar = <<>>
    /\ cl = <<>>

SpecMulti == MuInit /\ [][SvNext]_vars

\* C9 as stated: whatever the interleaving, the files a session has persisted
\* hold what came on its own connection: the received archive holds the bytes
\* the session wrote to its sink, and each extracted entry holds the bytes the
\* session extracted for it.
C9_SessionsIsolated ==
    \A s \in DOMAIN sv :
        /\ sv[s].fd_out = "closed" => disk[sv[s].path] = sv[s].written
        /\ \A k \in 1..Len(sv[s].outs) :
              disk[sv[s].outs[k].name] = sv[s].outs[k].bytes

(***************************************************************************)
(* framedThreadClient.py: Client.run on connection "s1".                   *)
(* cl holds the fields of the Client, the position of its thread (pc, at,  *)
(* call, fpos) and the events on the connection (log).  The peer may send  *)
(* the acknowledgement and may close at any time.                          *)
(***************************************************************************)
SendChunk == 4096

\* HeaderOf without the line separator after the size.
HeaderOfUnterminated(name, size) == name \o <<NL>> \o StrOfNat(size)

\* f"{self.archive_name}\n{self.file_size}\n".encode()
HeaderOf(name, size) == name \o <<NL>> \o StrOfNat(size) \o <<NL>>

ClFiles == {<<"a">>}

\* Sizes of the input file that put the archive of one or two files below, at
\* and above the chunk boundaries.
ClContents ==
    {Rep(n, "z") : n \in {0, 1, SendChunk - 17, SendChunk - 16, SendChunk - 1}}

ClLists == {<<>>, <<<<"a">>>>, <<<<"a">>, <<"a">>>>, <<MissingName>>}

ClInit ==
    /\ disk \in [ClFiles -> ClContents]
    /\ \E fl \in ClLists :
          cl = [pc |-> "build", file_list |-> fl, archive_name |-> ArchPath,
                file_size |-> 0, sock |-> "none", fpos |-> 0, at |-> "top",
                call |-> NewCall(<<>>), ack |-> <<>>, log |-> <<>>]
    /\ net = [s \in {"s1"} |-> NewConn(<<>>)]
    /\ sv = <<>>
    /\ fr = <<>>
    /\ ar = <<>>

\* Client.cleanup on the way out of run: fsock.close().
ClClose(c, pc) ==
    [c EXCEPT !.sock = "closed", !.log = Append(@, Ev("close", <<>>)), !.pc = pc]

\* Client.build_archive; when archive() exits, cleanup finds fsock unset.
ClBuildArchive ==
    /\ cl.pc = "build"
    /\ \E r \in {ArchiveAll(disk, cl.archive_name, cl.file_list)} :
          /\ disk' = r.fs
          /\ cl' = IF r.status = "ok"
                   THEN [cl EXCEPT !.file_size = Len(r.fs[cl.archive_name]),
                                   !.pc = "connect"]
                   ELSE [cl EXCEPT !.pc = "crashed"]
    /\ UNCHANGED <<fr, ar, sv, net>>

\* Client.connect; when connect() raises, cleanup finds fsock unset.
ClConnect ==
    /\ cl.pc = "connect"
    /\ \E ok \in BOOLEAN :
          cl' = IF ok THEN [cl EXCEPT !.sock = "open", !.pc = "send_header"]
                ELSE [cl EXCEPT !.pc = "crashed"]
    /\ UNCHANGED <<fr, ar, sv, net, disk>>

\* Client.send_header; the send may raise once the peer has closed.
ClSendHeader ==
    /\ cl.pc = "send_header"
    /\ \/ /\ net' = [net EXCEPT !["s1"].wire =
                        @ \o FrameOf(HeaderOf(cl.archive_name, cl.file_size))]
          /\ cl' = [cl EXCEPT !.pc = "send_data", !.fpos = 0,
                              !.log = Append(@, Ev("header",
                                         HeaderOf(cl.archive_name, cl.file_size)))]
       \/ /\ net["s1"].bshut
          /\ cl' = ClClose(cl, "crashed")
          /\ UNCHANGED net
    /\ UNCHANGED <<fr, ar, sv, disk>>

\* One pass of the loop of Client.send_data: a read of the archive and, unless
\* it is empty, the send of what was read.
ClSendChunk ==
    /\ cl.pc = "send_data"
    /\ \E chunk \in {ReadAt(disk, cl.archive_name, cl.fpos, SendChunk)} :
          \/ /\ chunk = <<>>
             /\ cl' = [cl EXCEPT !.pc = "wait_for_ack"]
             /\ UNCHANGED net
          \/ /\ chunk # <<>>
             /\ net' = [net EXCEPT !["s1"].wire = @ \o FrameOf(chunk)]
             /\ cl' = [cl EXCEPT !.fpos = @ + Len(chunk),
                                 !.log = Append(@, Ev("data", chunk))]
          \/ /\ chunk # <<>>
             /\ net["s1"].bshut
             /\ cl' = ClClose(cl, "crashed")
             /\ UNCHANGED net
    /\ UNCHANGED <<fr, ar, sv, disk>>

\* Client.wait_for_ack up to the call of receive: fsock.shutdown().
ClShutdown ==
    /\ cl.pc = "wait_for_ack"
    /\ \/ /\ net' = [net EXCEPT !["s1"].shut = TRUE]
          /\ cl' = [cl EXCEPT !.pc = "receive", !.at = "top", !.call = NewCall(@.rbuf),
                              !.log = @ \o <<Ev("shutdown", <<>>), Ev("wait", <<>>)>>]
       \/ /\ net["s1"].bshut
          /\ cl' = ClClose(cl, "crashed")
          /\ UNCHANGED net
    /\ UNCHANGED <<fr, ar, sv, disk>>

\* The receive of Client.wait_for_ack up to the socket read; when it returns,
\* the rest of wait_for_ack and cleanup.
ClReceiveTop ==
    /\ cl.pc = "receive"
    /\ cl.at = "top"
    /\ \E r \in {RecvTop(cl.call)} :
          cl' = IF r.ret = "block"
                THEN [cl EXCEPT !.call = [rbuf |-> r.rbuf, state |-> r.state,
                                          msgLength |-> r.msgLength],
                                !.at = "recv"]
                ELSE ClClose([cl EXCEPT !.call = NewCall(r.rbuf),
                                        !.ack = IF r.ret = "payload"
                                                THEN <<r.payload>> ELSE <<>>], "done")
    /\ UNCHANGED <<fr, ar, sv, net, disk>>

\* The sock.recv(100) of that receive: bytes arrive, or the peer has closed and
\* receive returns None.
ClSockRecv ==
    /\ cl.pc = "receive"
    /\ cl.at = "recv"
    /\ \/ /\ net["s1"].back # <<>>
          /\ \E k \in ReadSizes(Len(net["s1"].back)) :
                /\ cl' = [cl EXCEPT !.call.rbuf = @ \o SubSeq(net["s1"].back, 1, k),
                                    !.at = "top"]
                /\ net' = [net EXCEPT !["s1"].back = SubSeq(@, k + 1, Len(@))]
       \/ /\ net["s1"].back = <<>>
          /\ net["s1"].bshut
          /\ cl' = ClClose(cl, "done")
          /\ UNCHANGED net
    /\ UNCHANGED <<fr, ar, sv, disk>>

\* The peer of the sender acknowledges, as Server.handle_data does.
EnvAck ==
    /\ cl.pc \notin {"build", "connect"}
    /\ ~net["s1"].bshut
    /\ ~net["s1"].acked
    /\ net' = [net EXCEPT !["s1"].back = @ \o FrameOf(AckText(cl.archive_name)),
                          !["s1"].acked = TRUE]
    /\ UNCHANGED <<fr, ar, sv, disk, cl>>

\* The peer of the sender closes the connection.
EnvClose ==
    /\ cl.pc \notin {"build", "connect"}
    /\ ~net["s1"].bshut
    /\ net' = [net EXCEPT !["s1"].bshut = TRUE]
    /\ UNCHANGED <<fr, ar, sv, disk, cl>>

ClNext ==
    \/ ClBuildArchive
    \/ ClConnect
    \/ ClSendHeader
    \/ ClSendChunk
    \/ ClShutdown
    \/ ClReceiveTop
    \/ ClSockRecv
    \/ EnvAck
    \/ EnvClose

SpecClient == ClInit /\ [][ClNext]_vars

\* The payloads of the data frames sent so far, in order.
ClData == SelectSeq(cl.log, LAMBDA e : e.ev = "data")

ClDataBytes == Concat([i \in 1..Len(ClData) |-> ClData[i].arg])

\* C7: the events of the sender on the connection come in the order header,
\* data frames, half-close, wait for the acknowledgement, close: a header
\* '<archive-name>\n<declared-size>\n' is the first event and the only header;
\* every data frame follows it, holds 1 to 4096 bytes, and the data frames sent
\* so far are a prefix of the archive file; the half-close follows only header
\* and data frames, whose bytes are then the whole archive and as many as the
\* declared size; no frame follows the half-close; the wait follows the
\* half-close at once; the close is the last event, and ends every run that
\* opened the socket; a run that returns normally went through all of them.
C7_SenderOrder ==
    LET L == cl.log
        n == Len(L)
    IN  /\ \A i \in 1..n :
              /\ L[i].ev = "header" =>
                    /\ i = 1
                    /\ L[i].arg = cl.archive_name \o <<NL>>
                                     \o StrOfNat(Len(disk[cl.archive_name])) \o <<NL>>
              /\ L[i].ev = "data" =>
                    /\ i > 1
                    /\ L[1].ev = "header"
                    /\ Len(L[i].arg) \in 1..SendChunk
              /\ L[i].ev = "shutdown" =>
                    /\ i > 1
                    /\ L[1].ev = "header"
                    /\ \A j \in 2..(i - 1) : L[j].ev = "data"
                    /\ Concat([j \in 1..(i - 2) |-> L[j + 1].arg]) = disk[cl.archive_name]
                    /\ Len(Concat([j \in 1..(i - 2) |-> L[j + 1].arg])) = cl.file_size
              /\ L[i].ev = "wait" => (i > 1 /\ L[i - 1].ev = "shutdown")
              /\ L[i].ev = "close" => i = n
        /\ n > 0 => IsPrefix(ClDataBytes, disk[cl.archive_name])
        /\ (cl.sock # "none" /\ cl.pc \in {"done", "crashed"}) => L[n].ev = "close"
        /\ cl.pc = "done" => (n >= 4 /\ L[n - 1].ev = "wait")

\* C7 witness: a run that sent the header and three data frames, two of them
\* full, half-closed, got the acknowledgement and closed.
C7_Witness ==
    /\ cl.pc = "done"
    /\ Len(ClData) = 3
    /\ Len(ClData[1].arg) = SendChunk
    /\ Len(ClData[3].arg) < SendChunk
    /\ cl.ack = <<AckText(cl.archive_name)>>

(***************************************************************************)
(* A sender and a receiver session on one connection: Client.run of        *)
(* framedThreadClient.py and the Server thread main starts for it.  The    *)
(* connection delivers what is written, in order; connect succeeds, and    *)
(* the half-close of the sender succeeds (the receiver closes only with    *)
(* every byte read, so no reset reaches the sender).  disk is the working  *)
(* directory of the sender; the receiver runs in the same directory, or    *)
(* (ar.remote) in one of its own, ar.fs.                                   *)
(***************************************************************************)
E2ELists == {<<<<"a">>>>, <<<<"a">>, <<"a">>>>}

E2EContents == {<<>>, <<"z">>}

E2EInit ==
    /\ disk \in [ClFiles -> E2EContents]
    /\ \E fl \in E2ELists :
          cl = [pc |-> "build", file_list |-> fl, archive_name |-> ArchPath,
                file_size |-> 0, sock |-> "none", fpos |-> 0, at |-> "top",
                call |-> NewCall(<<>>), ack |-> <<>>, log |-> <<>>]
    /\ net = [s \in {"s1"} |-> NewConn(<<>>)]
    /\ sv = [s \in {"s1"} |-> NewSession]
    /\ \E remote \in BOOLEAN : ar = [remote |-> remote, fs |-> NoFiles]
    /\ fr = <<>>

\* The working directory of the receiver.
ServerDir == IF ar.remote THEN ar.fs ELSE disk

E2EWorld == [s |-> sv["s1"], fs |-> ServerDir, back |-> net["s1"].back]

\* What a step of the receiver thread leaves behind.
E2ECommit(w, call, at) ==
    /\ sv' = [sv EXCEPT !["s1"] = [w.s EXCEPT !.call = call, !.at = at]]
    /\ net' = [net EXCEPT !["s1"].back = w.back,
                          !["s1"].bshut = (w.s.sock = "closed")]
    /\ IF ar.remote
       THEN ar' = [ar EXCEPT !.fs = w.fs] /\ UNCHANGED disk
       ELSE disk' = w.fs /\ UNCHANGED ar

\* The receiver thread runs receive up to the socket read and, when receive
\* returns, the rest of the loop body of Server.run.
E2EServerTop ==
    /\ sv["s1"].pc = "run"
    /\ sv["s1"].at = "top"
    /\ \E r \in {RecvTop(sv["s1"].call)} :
           IF r.ret = "block"
           THEN /\ sv' = [sv EXCEPT !["s1"].call = [rbuf |-> r.rbuf, state |-> r.state,
                                                    msgLength |-> r.msgLength],
                                    !["s1"].at = "recv"]
                /\ UNCHANGED <<disk, net, ar>>
           ELSE \E w \in {RunBody(E2EWorld, r, FALSE)} :
                    E2ECommit(w, NewCall(r.rbuf), "top")
    /\ UNCHANGED <<fr, cl>>

\* The receiver thread in sock.recv(100).
E2EServerRecv ==
    /\ sv["s1"].pc = "run"
    /\ sv["s1"].at = "recv"
    /\ cl.sock # "none"
    /\ IF sv["s1"].sock = "closed" \/ (net["s1"].wire = <<>> /\ net["s1"].shut)
       THEN \E w \in {RunBody(E2EWorld, [ret |-> "none", payload |-> <<>>], FALSE)} :
                E2ECommit(w, NewCall(sv["s1"].call.rbuf), "top")
       ELSE /\ net["s1"].wire # <<>>
            /\ \E k \in ReadSizes(Len(net["s1"].wire)) :
                  /\ sv' = [sv EXCEPT !["s1"].call.rbuf =
                                          @ \o SubSeq(net["s1"].wire, 1, k),
                                      !["s1"].at = "top"]
                  /\ net' = [net EXCEPT !["s1"].wire = SubSeq(@, k + 1, Len(@))]
            /\ UNCHANGED <<disk, ar>>
    /\ UNCHANGED <<fr, cl>>

\* The steps of Client.run; connect and the half-close succeed.
E2EClient ==
    \/ ClBuildArchive
    \/ ClConnect /\ cl'.pc # "crashed"
    \/ ClSendHeader
    \/ ClSendChunk
    \/ ClShutdown /\ cl'.pc # "crashed"
    \/ ClReceiveTop
    \/ ClSockRecv

E2EServer ==
    \/ E2EServerTop
    \/ E2EServerRecv

E2ENext ==
    \/ E2EClient
    \/ E2EServer

SpecE2E == E2EInit /\ [][E2ENext]_vars

\* Both threads are scheduled fairly.
SpecE2ELive == SpecE2E /\ WF_vars(E2EClient) /\ WF_vars(E2EServer)

\* The transfer is over: the receiver holds a file equal to the archive of the
\* sender, the sender has the acknowledgement that names the archive, both
\* threads have returned and both sockets are closed.
E2EDone ==
    /\ cl.pc = "done"
    /\ cl.sock = "closed"
    /\ cl.ack = <<AckText(cl.archive_name)>>
    /\ sv["s1"].pc = "done"
    /\ sv["s1"].sock = "closed"
    /\ sv["s1"].fd_out = "closed"
    /\ Exists(ServerDir, New(cl.archive_name))
    /\ ServerDir[New(cl.archive_name)] = disk[cl.archive_name]

\* C20 as stated: with both threads scheduled fairly the transfer comes to
\* its end; no state is reached in which a thread waits for ever.
C20_TransferCompletes == <>E2EDone

====
